---- MODULE Spec2Model ----
(***************************************************************************)
(* Finance Tracker (src/app.py): the five tables, the form handlers that   *)
(* mutate them, the recurring-charge poster, the card payment handler and  *)
(* the derived reporting of the Dashboard and the Cards page.              *)
(*                                                                         *)
(* Strings are sequences of one-character strings ("tokens"); a fixed      *)
(* piece of an f-string is kept as one token.  Amounts are whole numbers.  *)
(***************************************************************************)
EXTENDS Integers, Sequences, FiniteSets, TLC

\* the five tables, date.today(), and what the last script run reported or
\* rendered (the st.success message, the metrics and tips of a page)
VARIABLES tx, subs, cards, goals, budgets, today, last

vars == <<tx, subs, cards, goals, budgets, today, last>>

(* ------------------------------ bounds --------------------------------- *)
\* rows held by the five tables together
MaxRows == 3
\* rows held by the loaded transaction and card tables together
MaxDashRows == 3

Rows == Len(tx) + Len(subs) + Len(cards) + Len(goals) + Len(budgets)

(* --------------------------- program constants ------------------------- *)
CATEGORIES == <<"Income", "Rent", "Food", "Transport", "Shopping", "Bills", "Other">>

BudgetCategories == {CATEGORIES[i] : i \in 2..Len(CATEGORIES)}

(* ------------------------------ strings -------------------------------- *)
DigitChar == <<"0", "1", "2", "3", "4", "5", "6", "7", "8", "9">>

DigitOf == [ch \in {DigitChar[n] : n \in 1..10} |->
               (CHOOSE n \in 1..10 : DigitChar[n] = ch) - 1]

IsDigit(ch) == ch \in DOMAIN DigitOf

DigitVal(ch) == DigitOf[ch]

\* f"{n:02d}" for 0 <= n <= 99
Pad2(n) == <<DigitChar[(n \div 10) + 1], DigitChar[(n % 10) + 1]>>

\* f"{n}" / "%04d" for a four-digit year
Pad4(n) == <<DigitChar[(n \div 1000) + 1], DigitChar[((n \div 100) % 10) + 1]>> \o Pad2(n % 100)

\* str.contains(sub, regex=False): sub occurs as a contiguous substring of s
Contains(s, sub) ==
    \E i \in 0..(Len(s) - Len(sub)) : SubSeq(s, i + 1, i + Len(sub)) = sub

RECURSIVE LStrip(_)
LStrip(s) == IF s # <<>> /\ Head(s) = " " THEN LStrip(Tail(s)) ELSE s

RECURSIVE RStrip(_)
RStrip(s) ==
    IF s # <<>> /\ s[Len(s)] = " " THEN RStrip(SubSeq(s, 1, Len(s) - 1)) ELSE s

\* str.strip()
Strip(s) == RStrip(LStrip(s))

(* ------------------------------- dates --------------------------------- *)
MkDate(y, m, d) == [year |-> y, month |-> m, day |-> d]

NaT == [year |-> 0, month |-> 0, day |-> 0]

IsLeap(y) == (y % 4 = 0 /\ y % 100 # 0) \/ y % 400 = 0

DaysIn(y, m) ==
    IF m = 2 THEN (IF IsLeap(y) THEN 29 ELSE 28)
    ELSE IF m \in {4, 6, 9, 11} THEN 30 ELSE 31

\* date.isoformat(): "YYYY-MM-DD"
isoformat(d) == Pad4(d.year) \o <<"-">> \o Pad2(d.month) \o <<"-">> \o Pad2(d.day)

\* pd.to_datetime(..., errors="coerce") on one stored value: the calendar
\* date an ISO string denotes, NaT for anything that is not one
to_datetime(s) ==
    IF /\ Len(s) = 10
       /\ s[5] = "-" /\ s[8] = "-"
       /\ \A i \in {1, 2, 3, 4, 6, 7, 9, 10} : IsDigit(s[i])
    THEN LET y == 1000 * DigitVal(s[1]) + 100 * DigitVal(s[2])
                  + 10 * DigitVal(s[3]) + DigitVal(s[4])
             m == 10 * DigitVal(s[6]) + DigitVal(s[7])
             d == 10 * DigitVal(s[9]) + DigitVal(s[10])
         IN IF m \in 1..12 /\ d >= 1 /\ d <= DaysIn(y, m)
            THEN MkDate(y, m, d) ELSE NaT
    ELSE NaT

(* ------------------------------ helpers -------------------------------- *)
Abs(x) == IF x < 0 THEN -x ELSE x

Max2(a, b) == IF a > b THEN a ELSE b

Min2(a, b) == IF a < b THEN a ELSE b

RECURSIVE MaxId(_)
MaxId(df) ==
    IF Len(df) = 1 THEN df[1].id ELSE Max2(df[1].id, MaxId(Tail(df)))

\* next_id without the increment
next_id_same(df) == IF df # <<>> THEN MaxId(df) ELSE 1

\* next_id: one more than the largest id, 1 for an empty table
next_id(df) == IF df # <<>> THEN MaxId(df) + 1 ELSE 1

\* a delete that leaves the surviving ids as they were
Renumber_keep(df) == df

\* df["id"] = range(1, len(df) + 1)
Renumber(df) == [k \in 1..Len(df) |-> [df[k] EXCEPT !.id = k]]

\* df[df["id"] != row_id].reset_index(drop=True)
DropId(df, row_id) == SelectSeq(df, LAMBDA r : r.id # row_id)

Ids(df) == {df[k].id : k \in 1..Len(df)}

\* year and month read off the string without checking that the date exists
month_filter_lenient(df, y, m) ==
    IF df = <<>> THEN df
    ELSE SelectSeq(df, LAMBDA r :
            /\ Len(r.date) = 10
            /\ SubSeq(r.date, 1, 4) = Pad4(y)
            /\ SubSeq(r.date, 6, 7) = Pad2(m))

\* month_filter(df, date_col, y, m) on the "date" column
month_filter(df, y, m) ==
    IF df = <<>> THEN df
    ELSE SelectSeq(df, LAMBDA r :
            LET d == to_datetime(r.date) IN d # NaT /\ d.year = y /\ d.month = m)

(* ---------------------------- sample inputs ---------------------------- *)
NameN == <<"N">>
NameH == <<"H">>
NameV == <<"V">>
NameM == <<"M">>

\* f"[{kind}:{name}:{year}-{month:02d}]"
Marker(kind, name, y, m) ==
    <<kind>> \o name \o <<":">> \o Pad4(y) \o <<"-">> \o Pad2(m) \o <<"]">>

Todays == {MkDate(2024, 3, 31), MkDate(2024, 4, 10)}

\* submissions of the "add_tx" form / values of the transaction editor
TxForms ==
    { [d |-> MkDate(2024, 3, 5), amt |-> 100, cat |-> "Income", note |-> <<>>],
      [d |-> MkDate(2024, 3, 10), amt |-> -40, cat |-> "Food", note |-> <<"l">>],
      [d |-> MkDate(2024, 2, 10), amt |-> -16, cat |-> "Other",
       note |-> <<"r", " ">> \o Marker("[sub:", NameN, 2024, 3)] }

\* submissions of the "add_sub" form
SubForms ==
    { [name |-> NameN, amount |-> 16, next |-> MkDate(2024, 3, 1), cat |-> "Entertainment"],
      [name |-> NameN, amount |-> -5, next |-> MkDate(2024, 3, 15), cat |-> "Bills"],
      [name |-> NameH, amount |-> 8, next |-> MkDate(2024, 4, 20), cat |-> "Other"] }

\* submissions of the "add_card" form / values of the card editor
CardForms ==
    { [name |-> NameV, limit |-> 1000, balance |-> 400],
      [name |-> NameM, limit |-> 0, balance |-> 30] }

\* float(pay_amt) as the handler receives it; the handler itself accepts any
\* amount, the number_input range being applied by the form before it
PayAmts == {300, 500}

PayDates == {MkDate(2024, 3, 31)}

PayNotes == {<<>>}

GoalForms == { [name |-> <<"G">>, target |-> 500, d |-> MkDate(2025, 1, 1), saved |-> 50] }

BudgetForms ==
    { [cat |-> "Food", lim |-> 0], [cat |-> "Food", lim |-> 30], [cat |-> "Bills", lim |-> 50] }

(* ----------------------------- Transactions ---------------------------- *)
\* "add_tx" form submitted
AddTx(f) ==
    /\ Rows < MaxRows
    /\ tx' = Append(tx, [id |-> next_id(tx), date |-> isoformat(f.d), amount |-> f.amt,
                         category |-> f.cat, note |-> f.note])
    /\ last' = [op |-> "add_tx"]
    /\ UNCHANGED <<subs, cards, goals, budgets, today>>

\* "Save changes" on the row picked in the editor
EditTx(row_id, f) ==
    /\ tx # <<>>
    /\ row_id \in Ids(tx)
    /\ tx' = [k \in 1..Len(tx) |->
                IF tx[k].id = row_id
                THEN [tx[k] EXCEPT !.date = isoformat(f.d), !.amount = f.amt,
                                   !.category = f.cat, !.note = f.note]
                ELSE tx[k]]
    /\ last' = [op |-> "edit_tx"]
    /\ UNCHANGED <<subs, cards, goals, budgets, today>>

\* "Delete transaction" on the row picked in the editor
DeleteTx(row_id) ==
    /\ tx # <<>>
    /\ row_id \in Ids(tx)
    /\ tx' = Renumber(DropId(tx, row_id))
    /\ last' = [op |-> "delete_tx", id |-> row_id]
    /\ UNCHANGED <<subs, cards, goals, budgets, today>>

(* ----------------------------- Subscriptions ---------------------------- *)
\* "add_sub" form submitted with a non-empty name
AddSub(f) ==
    /\ Rows < MaxRows
    /\ f.name # <<>>
    /\ subs' = Append(subs, [id |-> next_id(subs), name |-> f.name, amount |-> f.amount,
                             cadence |-> "monthly",
                             next_charge_date |-> isoformat(f.next),
                             category |-> f.cat])
    /\ last' = [op |-> "add_sub"]
    /\ UNCHANGED <<tx, cards, goals, budgets, today>>

\* subs[(up.dt.year == today.year) & (up.dt.month == today.month)]
Due(sb, td) ==
    SelectSeq(sb, LAMBDA s :
        LET d == to_datetime(s.next_charge_date)
        IN d # NaT /\ d.year = td.year /\ d.month = td.month)

SubMarker(s, td) == Marker("[sub:", s.name, td.year, td.month)

\* a poster without the duplicate check
AlreadyPosted_never(t, marker) == FALSE

\* not tx[tx["note"].fillna("").str.contains(marker, regex=False)].empty
AlreadyPosted(t, marker) == \E i \in 1..Len(t) : Contains(t[i].note, marker)

PostedRow(t, s, td) ==
    [id |-> next_id(t),
     date |-> isoformat(MkDate(td.year, td.month, Min2(28, td.day))),
     amount |-> -Abs(s.amount),
     category |-> s.category,
     note |-> s.name \o <<" ">> \o SubMarker(s, td)]

\* the loop over the due subscriptions: the table and the count it ends with
RECURSIVE PostLoop(_, _, _, _)
PostLoop(due, t, added, td) ==
    IF due = <<>> THEN [tx |-> t, added |-> added]
    ELSE LET s == Head(due)
         IN IF AlreadyPosted(t, SubMarker(s, td))
            THEN PostLoop(Tail(due), t, added, td)
            ELSE PostLoop(Tail(due), Append(t, PostedRow(t, s, td)), added + 1, td)

\* "Add charges to Transactions"
PostCharges ==
    /\ subs # <<>>
    /\ LET r == PostLoop(Due(subs, today), tx, 0, today)
       IN /\ Rows + (Len(r.tx) - Len(tx)) <= MaxRows
          /\ tx' = r.tx
          /\ last' = [op |-> "post", added |-> r.added, rerun |-> (last.op = "post")]
    /\ UNCHANGED <<subs, cards, goals, budgets, today>>

(* -------------------------------- Cards -------------------------------- *)
\* "add_card" form submitted with a non-empty name
AddCard(f) ==
    /\ Rows < MaxRows
    /\ f.name # <<>>
    /\ cards' = Append(cards, [id |-> next_id(cards), name |-> f.name,
                               limit |-> f.limit, balance |-> f.balance])
    /\ last' = [op |-> "add_card"]
    /\ UNCHANGED <<tx, subs, goals, budgets, today>>

\* "Save card changes"
EditCard(card_choice, f) ==
    /\ cards # <<>>
    /\ card_choice \in Ids(cards)
    /\ cards' = [k \in 1..Len(cards) |->
                    IF cards[k].id = card_choice
                    THEN [cards[k] EXCEPT !.name = f.name, !.limit = f.limit,
                                          !.balance = f.balance]
                    ELSE cards[k]]
    /\ last' = [op |-> "edit_card"]
    /\ UNCHANGED <<tx, subs, goals, budgets, today>>

\* "Delete this card"
DeleteCard(card_choice) ==
    /\ cards # <<>>
    /\ card_choice \in Ids(cards)
    /\ LET rest == DropId(cards, card_choice)
       IN cards' = IF rest # <<>> THEN Renumber(rest) ELSE rest
    /\ last' = [op |-> "delete_card", id |-> card_choice]
    /\ UNCHANGED <<tx, subs, goals, budgets, today>>

\* pay_row = cards[cards["id"] == pay_card_choice].iloc[0]
FirstWithId(df, i) == df[CHOOSE k \in 1..Len(df) :
                            df[k].id = i /\ \A j \in 1..(k - 1) : df[j].id # i]

\* the new balance without the clamp at zero
NewBalance_unclamped(b, p) == b - p

\* new_bal = max(balance - pay_amt, 0.0)
NewBalance(b, p) == Max2(b - p, 0)

\* f"CC Payment - {name} {marker} {pay_note}".strip()
PayNote(name, pay_date, pay_note) ==
    Strip(<<"CC Payment - ">> \o name \o <<" ">>
          \o Marker("[ccpay:", name, pay_date.year, pay_date.month)
          \o <<" ">> \o pay_note)

\* "Apply payment"
ApplyPayment(pay_card_choice, pay_amt, pay_date, pay_note) ==
    /\ cards # <<>>
    /\ pay_card_choice \in Ids(cards)
    /\ Rows < MaxRows
    /\ LET pay_row == FirstWithId(cards, pay_card_choice)
           new_bal == NewBalance(pay_row.balance, pay_amt)
       IN /\ cards' = [k \in 1..Len(cards) |->
                          IF cards[k].id = pay_card_choice
                          THEN [cards[k] EXCEPT !.balance = new_bal] ELSE cards[k]]
          /\ tx' = Append(tx, [id |-> next_id(tx), date |-> isoformat(pay_date),
                               amount |-> -Abs(pay_amt), category |-> "Bills",
                               note |-> PayNote(pay_row.name, pay_date, pay_note)])
          /\ last' = [op |-> "pay", amt |-> pay_amt, new_bal |-> new_bal]
    /\ UNCHANGED <<subs, goals, budgets, today>>

(* -------------------------------- Goals -------------------------------- *)
\* "add_goal" form submitted with a non-empty name
AddGoal(f) ==
    /\ Rows < MaxRows
    /\ f.name # <<>>
    /\ goals' = Append(goals, [id |-> next_id(goals), name |-> f.name,
                               target_amount |-> f.target,
                               target_date |-> isoformat(f.d),
                               current_saved |-> f.saved])
    /\ last' = [op |-> "add_goal"]
    /\ UNCHANGED <<tx, subs, cards, budgets, today>>

(* ------------------------------- Budgets ------------------------------- *)
\* a save that always takes the append branch
HasCategory_never(b, bcat) == FALSE

\* not budgets[budgets["category"] == bcat].empty
HasCategory(b, bcat) == \E k \in 1..Len(b) : b[k].category = bcat

\* "Add / Update" on the budget form
SaveBudget(f) ==
    /\ f.cat \in BudgetCategories
    /\ HasCategory(budgets, f.cat) \/ Rows < MaxRows
    /\ budgets' = IF ~HasCategory(budgets, f.cat)
                  THEN Append(budgets, [category |-> f.cat, monthly_budget |-> f.lim])
                  ELSE [k \in 1..Len(budgets) |->
                           IF budgets[k].category = f.cat
                           THEN [budgets[k] EXCEPT !.monthly_budget = f.lim]
                           ELSE budgets[k]]
    /\ last' = [op |-> "save_budget",
                branch |-> IF HasCategory(budgets, f.cat) THEN "update" ELSE "append"]
    /\ UNCHANGED <<tx, subs, cards, goals, today>>

(* ------------------------------ reporting ------------------------------ *)
RECURSIVE SumAmount(_)
SumAmount(df) == IF df = <<>> THEN 0 ELSE Head(df).amount + SumAmount(Tail(df))

RECURSIVE SumLimit(_)
SumLimit(df) == IF df = <<>> THEN 0 ELSE Head(df).limit + SumLimit(Tail(df))

RECURSIVE SumBalance(_)
SumBalance(df) == IF df = <<>> THEN 0 ELSE Head(df).balance + SumBalance(Tail(df))

\* month_tx[month_tx["amount"] > 0]["amount"].sum() if not month_tx.empty else 0.0
Income(month_tx) ==
    IF month_tx # <<>> THEN SumAmount(SelectSeq(month_tx, LAMBDA r : r.amount > 0)) ELSE 0

\* -month_tx[month_tx["amount"] < 0]["amount"].sum() if not month_tx.empty else 0.0
Expense(month_tx) ==
    IF month_tx # <<>> THEN -SumAmount(SelectSeq(month_tx, LAMBDA r : r.amount < 0)) ELSE 0

\* exp_by_cat.get(category, 0.0), exp_by_cat being
\* month_tx[month_tx["amount"] < 0].groupby("category")["amount"].sum().abs()
ExpByCat(month_tx, category) ==
    LET grp == SelectSeq(month_tx, LAMBDA r : r.amount < 0 /\ r.category = category)
    IN IF grp # <<>> THEN Abs(SumAmount(grp)) ELSE 0

\* a ratio num/den (den > 0) compared with 0.3
Above30(ratio) == 10 * ratio[1] > 3 * ratio[2]

\* the categories "Budget status" warns about, in table order
OverBudget(b, month_tx) ==
    IF b # <<>> /\ month_tx # <<>>
    THEN SelectSeq([k \in 1..Len(b) |-> b[k]],
                   LAMBDA row : LET limit == row.monthly_budget
                                    spent == ExpByCat(month_tx, row.category)
                                IN limit > 0 /\ spent > limit)
    ELSE <<>>

\* the list `over` the advice section builds, in table order
OverTip(b, month_tx) ==
    IF b # <<>> /\ month_tx # <<>>
    THEN SelectSeq([k \in 1..Len(b) |-> b[k]],
                   LAMBDA r : ExpByCat(month_tx, r.category) > r.monthly_budget)
    ELSE <<>>

Tip(kind, cats) == [kind |-> kind, cats |-> cats]

\* the spending tip without the income > 0 guard
SpendTip_anyIncome(income, expense) ==
    IF expense > income THEN <<Tip("spend", <<>>)>> ELSE <<>>

\* if expense > income and income > 0
SpendTip(income, expense) ==
    IF expense > income /\ income > 0 THEN <<Tip("spend", <<>>)>> ELSE <<>>

\* cards["balance"].sum() / max(cards["limit"].sum(), 1)
DashUtil(c) == <<SumBalance(c), Max2(SumLimit(c), 1)>>

\* if not cards.empty and (...) > 0.3
UtilTip(c) ==
    IF c # <<>> /\ Above30(DashUtil(c)) THEN <<Tip("util", <<>>)>> ELSE <<>>

\* if not subs.empty and (len(subs) >= 3)
SubsTip(sb) == IF sb # <<>> /\ Len(sb) >= 3 THEN <<Tip("subs", <<>>)>> ELSE <<>>

\* if over: tips.append("Over budget in: " + ", ".join(over) + ...)
BudgetTip(b, month_tx) ==
    LET over == OverTip(b, month_tx)
    IN IF over # <<>>
       THEN <<Tip("over", [k \in 1..Len(over) |-> over[k].category])>> ELSE <<>>

\* the Dashboard page rendered for the month (y, m)
Dashboard(y, m) ==
    /\ \E month_tx \in {month_filter(tx, y, m)} :
       LET income == Income(month_tx)
           expense == Expense(month_tx)
       IN last' = [op |-> "dashboard", y |-> y, m |-> m,
                   income |-> income, expense |-> expense, net |-> income - expense,
                   flagged |-> LET o == OverBudget(budgets, month_tx)
                               IN [k \in 1..Len(o) |-> o[k].category],
                   tips |-> SpendTip(income, expense) \o UtilTip(cards)
                            \o SubsTip(subs) \o BudgetTip(budgets, month_tx)]
    /\ UNCHANGED <<tx, subs, cards, goals, budgets, today>>

\* total_util = balance.sum() / limit.sum() if limit.sum() > 0 else 0
total_util(c) == IF SumLimit(c) > 0 THEN <<SumBalance(c), SumLimit(c)>> ELSE <<0, 1>>

\* the Cards page rendered: the utilization metric and the warning / info box
CardsPage ==
    /\ cards # <<>>
    /\ last' = [op |-> "cards_page", total_util |-> total_util(cards),
                warning |-> Above30(total_util(cards))]
    /\ UNCHANGED <<tx, subs, cards, goals, budgets, today>>

(* ------------------------------ the program ---------------------------- *)
\* no data files yet: load_df returns five empty tables
Init ==
    /\ tx = <<>>
    /\ subs = <<>>
    /\ cards = <<>>
    /\ goals = <<>>
    /\ budgets = <<>>
    /\ today \in Todays
    /\ last = [op |-> "start"]

Next ==
    \/ \E f \in TxForms : AddTx(f)
    \/ \E i \in Ids(tx), f \in TxForms : EditTx(i, f)
    \/ \E i \in Ids(tx) : DeleteTx(i)
    \/ \E f \in SubForms : AddSub(f)
    \/ PostCharges
    \/ \E f \in CardForms : AddCard(f)
    \/ \E i \in Ids(cards), f \in CardForms : EditCard(i, f)
    \/ \E i \in Ids(cards) : DeleteCard(i)
    \/ \E i \in Ids(cards), p \in PayAmts, d \in PayDates, n \in PayNotes :
          ApplyPayment(i, p, d, n)
    \/ \E f \in GoalForms : AddGoal(f)
    \/ \E f \in BudgetForms : SaveBudget(f)

Spec == Init /\ [][Next]_vars

(* --------------------- reporting over loaded tables -------------------- *)
SeqsUpTo(S, n) == UNION {[1..k -> S] : k \in 0..n}

\* rows of data/transactions.csv: written by the forms, or edited by hand
DashTxRows ==
    { [date |-> isoformat(MkDate(2024, 3, 5)), amount |-> 30, category |-> "Income"],
      [date |-> isoformat(MkDate(2024, 3, 10)), amount |-> -40, category |-> "Food"],
      [date |-> isoformat(MkDate(2024, 3, 12)), amount |-> -20, category |-> "Bills"],
      [date |-> isoformat(MkDate(2024, 2, 10)), amount |-> 25, category |-> "Income"],
      [date |-> <<"2", "0", "2", "4", "-", "0", "3", "-", "3", "2">>,
       amount |-> -7, category |-> "Food"] }

DashCardRows == CardForms \cup {[name |-> NameV, limit |-> 1000, balance |-> 300]}

DashMonths == {<<2024, 3>>, <<2024, 2>>}

LoadedTx ==
    { [k \in 1..Len(rows) |->
         [id |-> k, date |-> rows[k].date, amount |-> rows[k].amount,
          category |-> rows[k].category, note |-> <<>>]] :
      rows \in SeqsUpTo(DashTxRows, MaxDashRows) }

LoadedCards ==
    { [k \in 1..Len(rows) |->
         [id |-> k, name |-> rows[k].name, limit |-> rows[k].limit,
          balance |-> rows[k].balance]] :
      rows \in SeqsUpTo(DashCardRows, MaxDashRows) }

LoadedBudgets ==
    { [k \in 1..Len(rows) |-> [category |-> rows[k].cat, monthly_budget |-> rows[k].lim]] :
      rows \in {r \in SeqsUpTo(BudgetForms, 2) :
                   \A i, j \in 1..Len(r) : i # j => r[i].cat # r[j].cat} }

LoadedSubs ==
    { [k \in 1..n |-> [id |-> k, name |-> NameN, amount |-> 16, cadence |-> "monthly",
                       next_charge_date |-> isoformat(MkDate(2024, 3, 1)),
                       category |-> "Entertainment"]] : n \in {0, 2, 3} }

\* the tables as load_df reads them from existing data files
InitDash ==
    /\ tx \in LoadedTx
    /\ subs \in LoadedSubs
    /\ cards \in {c \in LoadedCards : Len(tx) + Len(c) <= MaxDashRows}
    /\ goals = <<>>
    /\ budgets \in LoadedBudgets
    /\ today = MkDate(2024, 3, 31)
    /\ last = [op |-> "start"]

NextDash ==
    \/ \E ym \in DashMonths : Dashboard(ym[1], ym[2])
    \/ CardsPage

SpecDash == InitDash /\ [][NextDash]_vars

(* ------------------------------ properties ----------------------------- *)

\* C1: running "Add charges to Transactions" again right after a run, with the
\* same tables and the same today, appends no transaction and reports 0.
C1_PostTwice ==
    [][(PostCharges /\ last.op = "post") => (tx' = tx /\ last'.added = 0)]_vars

\* a second run in a row, after a run that left a posted charge in the table
C1_Witness ==
    /\ last.op = "post" /\ last.rerun /\ last.added = 0
    /\ \E i \in 1..Len(tx), k \in 1..Len(subs) :
          tx[i].note = subs[k].name \o <<" ">>
                       \o Marker("[sub:", subs[k].name, today.year, today.month)

\* C2: a payment p on a card with balance b leaves the balance at max(b - p, 0),
\* never negative (0 when p > b), and appends exactly one transaction with
\* amount -|p|, category "Bills" and a note holding [ccpay:<name>:<year>-<month>].
C2_Payment ==
    [][\A c \in Ids(cards), p \in PayAmts, d \in PayDates, n \in PayNotes :
          ApplyPayment(c, p, d, n) =>
             \E k \in 1..Len(cards) :
                /\ cards[k].id = c
                /\ cards'[k].balance = (IF p > cards[k].balance THEN 0
                                        ELSE cards[k].balance - p)
                /\ cards'[k].balance >= 0
                /\ Len(tx') = Len(tx) + 1
                /\ SubSeq(tx', 1, Len(tx)) = tx
                /\ tx'[Len(tx')].amount = -Abs(p)
                /\ tx'[Len(tx')].category = "Bills"
                /\ Contains(tx'[Len(tx')].note,
                            Marker("[ccpay:", cards[k].name, d.year, d.month))]_vars

\* a payment larger than the balance has been applied
C2_Witness ==
    /\ last.op = "pay" /\ last.amt = 500 /\ last.new_bal = 0
    /\ \E k \in 1..Len(cards) : cards[k].balance = 0 /\ cards[k].limit = 1000
    /\ tx # <<>> /\ tx[Len(tx)].amount = -500

\* C7: from empty tables, the ids of each of transactions, subscriptions, cards
\* and goals stay pairwise distinct, and every appended row gets the largest id
\* of the rows before it plus one (1 in an empty table).
C7_Ids ==
    /\ [](\A T \in {tx, subs, cards, goals} :
             \A i, j \in 1..Len(T) : i # j => T[i].id # T[j].id)
    /\ [][\A P \in {<<tx, tx'>>, <<subs, subs'>>, <<cards, cards'>>, <<goals, goals'>>} :
             Len(P[2]) > Len(P[1]) =>
                \A k \in (Len(P[1]) + 1)..Len(P[2]) :
                   /\ k = 1 => P[2][k].id = 1
                   /\ k > 1 => /\ \E j \in 1..(k - 1) : P[2][k].id = P[2][j].id + 1
                               /\ \A j \in 1..(k - 1) : P[2][k].id > P[2][j].id]_vars

\* a charge was posted behind an existing transaction
C7_Witness ==
    /\ last.op = "post" /\ last.added = 1
    /\ Len(tx) >= 2 /\ subs # <<>>

\* C8: the budget table never holds two rows of one category; saving an absent
\* category appends one row, saving a present one rewrites only that row's
\* monthly_budget, and every other row is left as it was.
C8_Upsert ==
    /\ [](\A i, j \in 1..Len(budgets) : i # j => budgets[i].category # budgets[j].category)
    /\ [][\A f \in BudgetForms :
             SaveBudget(f) =>
                IF f.cat \in {budgets[k].category : k \in 1..Len(budgets)}
                THEN /\ Len(budgets') = Len(budgets)
                     /\ \A k \in 1..Len(budgets) :
                           /\ budgets'[k].category = budgets[k].category
                           /\ budgets[k].category = f.cat
                                 => budgets'[k].monthly_budget = f.lim
                           /\ budgets[k].category # f.cat => budgets'[k] = budgets[k]
                ELSE budgets' = budgets \o <<[category |-> f.cat,
                                              monthly_budget |-> f.lim]>>]_vars

\* a present category was saved again while another category's row was there
C8_Witness ==
    /\ last.op = "save_budget" /\ last.branch = "update"
    /\ Len(budgets) = 2

\* C9: deleting a transaction or a card removes exactly the row with the chosen
\* id; the survivors keep their order and every field but the id, and are
\* renumbered 1..N.
C9_Delete ==
    [][/\ \A i \in Ids(tx) :
             DeleteTx(i) =>
                \E pos \in 1..Len(tx) :
                   /\ tx[pos].id = i
                   /\ Len(tx') = Len(tx) - 1
                   /\ \A k \in 1..Len(tx') :
                         tx'[k] = [tx[IF k < pos THEN k ELSE k + 1] EXCEPT !.id = k]
       /\ \A i \in Ids(cards) :
             DeleteCard(i) =>
                \E pos \in 1..Len(cards) :
                   /\ cards[pos].id = i
                   /\ Len(cards') = Len(cards) - 1
                   /\ \A k \in 1..Len(cards') :
                         cards'[k] = [cards[IF k < pos THEN k ELSE k + 1]
                                         EXCEPT !.id = k]]_vars

\* the first of three transactions was deleted: both survivors were renumbered
C9_Witness ==
    /\ last.op = "delete_tx" /\ last.id = 1
    /\ Len(tx) = 2 /\ tx[1].id = 1 /\ tx[2].id = 2

\* C10: one run of the poster appends one transaction for each subscription due
\* in today's month whose marker is in no note before the run, in table order,
\* with date min(28, day), amount -|amount|, the subscription's category and
\* note "<name> <marker>", appends nothing else, and reports their number.
C10_PostsEachDue ==
    [][PostCharges =>
          LET eligible ==
                 SelectSeq(subs, LAMBDA s :
                    /\ \E d \in 1..31 :
                          s.next_charge_date = isoformat(MkDate(today.year, today.month, d))
                    /\ \A i \in 1..Len(tx) :
                          ~Contains(tx[i].note,
                                    Marker("[sub:", s.name, today.year, today.month)))
          IN /\ Len(tx') = Len(tx) + Len(eligible)
             /\ SubSeq(tx', 1, Len(tx)) = tx
             /\ last'.added = Len(eligible)
             /\ \A k \in 1..Len(eligible) :
                   LET row == tx'[Len(tx) + k]
                       s == eligible[k]
                   IN /\ row.date = isoformat(MkDate(today.year, today.month,
                                                      IF today.day > 28 THEN 28
                                                      ELSE today.day))
                      /\ row.amount = -Abs(s.amount)
                      /\ row.category = s.category
                      /\ row.note = s.name \o <<" ">>
                            \o Marker("[sub:", s.name, today.year, today.month)]_vars

\* C3: for the month (y, m) the dashboard shows income = the sum of the positive
\* amounts and expense = the sum of the absolute values of the negative amounts
\* over exactly the transactions whose date is a calendar date of that month
\* (0 for none), and net = income - expense.
C3_Ledger ==
    last.op = "dashboard" =>
       LET InMonth(r) ==
              \E d \in 1..DaysIn(last.y, last.m) :
                 r.date = isoformat(MkDate(last.y, last.m, d))
           inc[k \in 0..Len(tx)] ==
              IF k = 0 THEN 0
              ELSE inc[k - 1] + (IF InMonth(tx[k]) /\ tx[k].amount > 0
                                 THEN tx[k].amount ELSE 0)
           exp[k \in 0..Len(tx)] ==
              IF k = 0 THEN 0
              ELSE exp[k - 1] + (IF InMonth(tx[k]) /\ tx[k].amount < 0
                                 THEN -tx[k].amount ELSE 0)
       IN /\ last.income = inc[Len(tx)]
          /\ last.expense = exp[Len(tx)]
          /\ last.net = last.income - last.expense
          /\ (\A k \in 1..Len(tx) : ~InMonth(tx[k]))
                => last.income = 0 /\ last.expense = 0

\* a month with income was summed while a row with an impossible date of that
\* month (2024-03-32) and a negative amount was in the table
C3_Witness ==
    /\ last.op = "dashboard" /\ last.y = 2024 /\ last.m = 3
    /\ last.income > 0 /\ last.expense = 0
    /\ \E k \in 1..Len(tx) :
          /\ to_datetime(tx[k].date) = NaT
          /\ Len(tx[k].date) = 10
          /\ SubSeq(tx[k].date, 1, 7) = <<"2", "0", "2", "4", "-", "0", "3">>
          /\ tx[k].amount < 0

\* C4: utilization is sum(balances)/sum(limits), 0 when the limits sum to 0, and
\* both the Cards page warning and the Dashboard tip fire exactly when it is
\* greater than 0.30.
C4_UtilizationFlags ==
    LET above == SumLimit(cards) > 0 /\ 10 * SumBalance(cards) > 3 * SumLimit(cards)
    IN /\ last.op = "cards_page" => (last.warning <=> above)
       /\ last.op = "dashboard" =>
             ((\E k \in 1..Len(last.tips) : last.tips[k].kind = "util") <=> above)

\* C5 as stated: the overspending tip is there exactly when expense > income,
\* months without income included, and the tips keep the fixed order.
C5_SpendTipAsStated ==
    last.op = "dashboard" =>
       /\ (\E k \in 1..Len(last.tips) : last.tips[k].kind = "spend")
             <=> last.expense > last.income
       /\ \A i, j \in 1..Len(last.tips) :
             i < j => <<last.tips[i].kind, last.tips[j].kind>> \in
                         {<<"spend", "util">>, <<"spend", "subs">>, <<"spend", "over">>,
                          <<"util", "subs">>, <<"util", "over">>, <<"subs", "over">>}

\* C5 amended: the overspending tip is there exactly when expense > income and
\* income > 0, and the tips keep the fixed order income/expense, utilization,
\* subscription count, over-budget list.
C5_SpendTip ==
    last.op = "dashboard" =>
       /\ (\E k \in 1..Len(last.tips) : last.tips[k].kind = "spend")
             <=> (last.expense > last.income /\ last.income > 0)
       /\ \A i, j \in 1..Len(last.tips) :
             i < j => <<last.tips[i].kind, last.tips[j].kind>> \in
                         {<<"spend", "util">>, <<"spend", "subs">>, <<"spend", "over">>,
                          <<"util", "subs">>, <<"util", "over">>, <<"subs", "over">>}

\* a month with some income and more spending, shown with all four tips
C5_Witness ==
    /\ last.op = "dashboard"
    /\ last.expense > last.income /\ last.income > 0
    /\ Len(last.tips) = 4 /\ last.tips[1].kind = "spend"

\* C6: a budget row is flagged over budget exactly when limit > 0 and the month's
\* spending in its category exceeds the limit, and the over-budget tip lists
\* exactly the flagged categories, rows with limit 0 included.
C6_OverBudget ==
    last.op = "dashboard" =>
       LET InMonth(r) ==
              \E d \in 1..DaysIn(last.y, last.m) :
                 r.date = isoformat(MkDate(last.y, last.m, d))
           spent[c \in {budgets[k].category : k \in 1..Len(budgets)}] ==
              LET acc[k \in 0..Len(tx)] ==
                     IF k = 0 THEN 0
                     ELSE acc[k - 1] + (IF /\ InMonth(tx[k]) /\ tx[k].amount < 0
                                           /\ tx[k].category = c
                                        THEN -tx[k].amount ELSE 0)
              IN acc[Len(tx)]
           over == SelectSeq([k \in 1..Len(budgets) |-> budgets[k]],
                             LAMBDA r : r.monthly_budget > 0
                                        /\ spent[r.category] > r.monthly_budget)
           listed == [k \in 1..Len(over) |-> over[k].category]
       IN /\ last.flagged = listed
          /\ \A k \in 1..Len(last.tips) :
                last.tips[k].kind = "over" => last.tips[k].cats = last.flagged
          /\ (\E k \in 1..Len(last.tips) : last.tips[k].kind = "over")
                <=> last.flagged # <<>>

====
